---- MODULE Spec2Model ----
(***************************************************************************)
(* A model of final_AI_Task_Optimizer.py: the mood log kept by main(), its *)
(* persistence (save_mood_history / load_mood_history), the stress monitor,*)
(* the task recommender and the reporter (plot_team_mood).                 *)
(*                                                                         *)
(* Text is a sequence of one-character strings, so that str.capitalize()   *)
(* and str.strip() are computed and not assumed.  A Python value is a node *)
(* [type, key, str, items]; a dict is a node whose items are its members,  *)
(* in insertion order, each carrying its key.  The backing file is a       *)
(* sequence of JSON tokens (white space is not significant to JSON and is  *)
(* left out); json.dump and json.load are a printer and a parser over      *)
(* these tokens.                                                           *)
(***************************************************************************)
EXTENDS Integers, Sequences, FiniteSets, TLC

(* ------------------------------ bounds -------------------------------- *)
\* most records the in-memory log may hold before the capture source ends
MaxLog == 6
\* number of runs of the program (processes) that are followed
MaxSessions == 2
\* number of I/O faults the environment injects into save, over all runs
MaxFaults == 1
\* a faulted write may stop after 0..MaxCut tokens, or one token short
MaxCut == 1
\* longest log drawn as an input of the store's save/load pair
MaxStoreLog == 2

(* --------------------------- program constants ------------------------ *)
stress_threshold == 3
stress_window == 5

(* -------------------------------- text -------------------------------- *)
Lower == << "a","b","c","d","e","f","g","h","i","j","k","l","m",
            "n","o","p","q","r","s","t","u","v","w","x","y","z" >>
Upper == << "A","B","C","D","E","F","G","H","I","J","K","L","M",
            "N","O","P","Q","R","S","T","U","V","W","X","Y","Z" >>

IsLower(c) == \E i \in 1..Len(Lower) : Lower[i] = c
IsUpper(c) == \E i \in 1..Len(Upper) : Upper[i] = c
to_upper(c) == IF IsLower(c)
               THEN Upper[CHOOSE i \in 1..Len(Lower) : Lower[i] = c] ELSE c
to_lower(c) == IF IsUpper(c)
               THEN Lower[CHOOSE i \in 1..Len(Upper) : Upper[i] = c] ELSE c

\* str.capitalize(): first character upper-cased, every other lower-cased
capitalize(s) ==
  [i \in 1..Len(s) |-> IF i = 1 THEN to_upper(s[i]) ELSE to_lower(s[i])]

RECURSIVE lstrip(_)
lstrip(s) == IF s # <<>> /\ Head(s) = " " THEN lstrip(Tail(s)) ELSE s
RECURSIVE rstrip(_)
rstrip(s) == IF s # <<>> /\ s[Len(s)] = " "
             THEN rstrip(SubSeq(s, 1, Len(s) - 1)) ELSE s
\* str.strip()
strip(s) == rstrip(lstrip(s))

Happy    == << "H","a","p","p","y" >>
Sad      == << "S","a","d" >>
Fear     == << "F","e","a","r" >>
Angry    == << "A","n","g","r","y" >>
Surprise == << "S","u","r","p","r","i","s","e" >>
Neutral  == << "N","e","u","t","r","a","l" >>
\* the vocabulary of the data model
Vocabulary == {Happy, Sad, Fear, Angry, Surprise, Neutral}

(* ---------------------------- Python values --------------------------- *)
PyStr(s)   == [type |-> "str",  key |-> "", str |-> s,    items |-> <<>>]
PyInt(s)   == [type |-> "int",  key |-> "", str |-> s,    items |-> <<>>]
PyList(xs) == [type |-> "list", key |-> "", str |-> <<>>, items |-> xs]
PyDict(ms) == [type |-> "dict", key |-> "", str |-> <<>>, items |-> ms]
PyNone     == [type |-> "None", key |-> "", str |-> <<>>, items |-> <<>>]
Member(k, v) == [v EXCEPT !.key = k]

IsDict(v) == v.type = "dict"
IsList(v) == v.type = "list"
\* k in d
HasKey(d, k) == \E i \in 1..Len(d.items) : d.items[i].key = k
\* d[k], for a key d has
Get(d, k) ==
  [d.items[CHOOSE i \in 1..Len(d.items) : d.items[i].key = k] EXCEPT !.key = ""]
\* d[k] = v: replaces the member in place, or adds it last
DictSet(d, k, v) ==
  IF HasKey(d, k)
  THEN PyDict([i \in 1..Len(d.items) |->
                 IF d.items[i].key = k THEN Member(k, v) ELSE d.items[i]])
  ELSE PyDict(Append(d.items, Member(k, v)))
\* bool(v)
Truthy(v) == CASE v.type \in {"list", "dict"} -> v.items # <<>>
               [] v.type = "str" -> v.str # <<>>
               [] v.type = "int" -> v.str # << "0" >>
               [] OTHER -> FALSE

\* xs[-n:]
LastN(xs, n) == IF Len(xs) <= n THEN xs ELSE SubSeq(xs, Len(xs) - n + 1, Len(xs))

(* ------------------------------- JSON --------------------------------- *)
Tok(t)    == [tok |-> t,     name |-> "", str |-> <<>>]
StrTok(s) == [tok |-> "str", name |-> "", str |-> s]
IntTok(s) == [tok |-> "int", name |-> "", str |-> s]
KeyTok(k) == [tok |-> "key", name |-> k,  str |-> <<>>]
\* a byte that is not valid UTF-8
ByteTok   == Tok("byte")

RECURSIVE Dump(_)
RECURSIVE DumpItems(_, _)
\* the tokens of items from..Len, separated by commas
DumpItems(v, from) ==
  IF from > Len(v.items) THEN <<>>
  ELSE (IF IsDict(v) THEN << KeyTok(v.items[from].key), Tok(":") >> ELSE <<>>)
       \o Dump(v.items[from])
       \o (IF from < Len(v.items) THEN << Tok(",") >> ELSE <<>>)
       \o DumpItems(v, from + 1)
\* json.dump: the tokens written for a value
Dump(v) ==
  CASE v.type = "str"  -> << StrTok(v.str) >>
    [] v.type = "int"  -> << IntTok(v.str) >>
    [] v.type = "list" -> << Tok("[") >> \o DumpItems(v, 1) \o << Tok("]") >>
    [] v.type = "dict" -> << Tok("{") >> \o DumpItems(v, 1) \o << Tok("}") >>

ParseFail == [ok |-> FALSE, val |-> PyNone, next |-> 0]
ParseOk(v, n) == [ok |-> TRUE, val |-> v, next |-> n]
TokAt(ts, i) == IF i <= Len(ts) THEN ts[i].tok ELSE "eof"

RECURSIVE ParseValue(_, _)
RECURSIVE ParseElems(_, _, _)
RECURSIVE ParseMembers(_, _, _)
\* the elements of an array, from token i on; acc holds those read
ParseElems(ts, i, acc) ==
  LET v == ParseValue(ts, i) IN
  IF ~v.ok THEN ParseFail
  ELSE IF TokAt(ts, v.next) = ","
       THEN ParseElems(ts, v.next + 1, Append(acc, v.val))
  ELSE IF TokAt(ts, v.next) = "]"
       THEN ParseOk(PyList(Append(acc, v.val)), v.next + 1)
  ELSE ParseFail
\* the members of an object, from token i on; acc is the dict so far
ParseMembers(ts, i, acc) ==
  IF TokAt(ts, i) # "key" \/ TokAt(ts, i + 1) # ":" THEN ParseFail
  ELSE LET v == ParseValue(ts, i + 2) IN
       IF ~v.ok THEN ParseFail
       ELSE IF TokAt(ts, v.next) = ","
            THEN ParseMembers(ts, v.next + 1, DictSet(acc, ts[i].name, v.val))
       ELSE IF TokAt(ts, v.next) = "}"
            THEN ParseOk(DictSet(acc, ts[i].name, v.val), v.next + 1)
       ELSE ParseFail
ParseValue(ts, i) ==
  CASE TokAt(ts, i) = "str" -> ParseOk(PyStr(ts[i].str), i + 1)
    [] TokAt(ts, i) = "int" -> ParseOk(PyInt(ts[i].str), i + 1)
    [] TokAt(ts, i) = "[" ->
         IF TokAt(ts, i + 1) = "]" THEN ParseOk(PyList(<<>>), i + 2)
         ELSE ParseElems(ts, i + 1, <<>>)
    [] TokAt(ts, i) = "{" ->
         IF TokAt(ts, i + 1) = "}" THEN ParseOk(PyDict(<<>>), i + 2)
         ELSE ParseMembers(ts, i + 1, PyDict(<<>>))
    [] OTHER -> ParseFail
\* json.loads: one value and nothing after it, else JSONDecodeError
json_loads(ts) ==
  LET v == ParseValue(ts, 1) IN
  IF v.ok /\ v.next = Len(ts) + 1 THEN v ELSE ParseFail

(* ----------------------------- messages ------------------------------- *)
MsgAlert     == "ALERT: Prolonged stress detected! Notifying HR."
MsgSaved     == "Mood history successfully updated with anonymized data!"
MsgSaveError == "Error saving mood history"
MsgCorrupt   == "Warning: mood_history.json is corrupted or empty. Resetting..."
MsgNoHistory == "No mood history available to plot."
MsgNoValid   == "No valid mood data available for plotting."
Fallback     == "No suggestion available"

(* ------------------------- the program's functions -------------------- *)
\* DeepFace.analyze returns a list of faces, each with its dominant emotion
\* in lower case; result is the list of those emotions
detect_facial_emotion(result) ==
  IF result # <<>> THEN capitalize(result[1]) ELSE Neutral

\* hashlib.sha256(data.encode()).hexdigest(): the digest is kept abstract, as
\* an injective tag of the data that never equals the data
anonymize_data(data) == << "#" >> \o data

\* the record main() builds for one observation
mood_entry(employee, mood) ==
  PyDict(<< Member("employee_id", PyStr(employee)),
            Member("mood", PyStr(mood)),
            Member("anonymized_mood", PyStr(anonymize_data(mood))) >>)

\* isinstance(entry, dict) and "mood" in entry
HasMood(entry) == IsDict(entry) /\ HasKey(entry, "mood")

recent_moods(history) ==
  LET kept == SelectSeq(LastN(history.items, stress_window), HasMood)
  IN  [i \in 1..Len(kept) |-> Get(kept[i], "mood")]

\* a variant that counts over the whole log instead of its last records
stressed_count_whole_log(history) ==
  Cardinality({i \in 1..Len(history.items) :
                 HasMood(history.items[i])
                 /\ Get(history.items[i], "mood") = PyStr(Sad)})

stressed_count(history) ==
  LET moods == recent_moods(history)
  IN  Cardinality({i \in 1..Len(moods) : moods[i] = PyStr(Sad)})

\* a variant that trims the list it is given to the window it looks at
monitor_stress_trimming(history) ==
  [ mood_history |-> PyList(LastN(history.items, stress_window)),
    printed |-> IF stressed_count(history) >= stress_threshold
                THEN << MsgAlert >> ELSE <<>>,
    ret     |-> PyNone ]

\* monitor_stress(mood_history): what it leaves in the list, what it prints
\* and what it returns
monitor_stress(history) ==
  [ mood_history |-> history,
    printed |-> IF stressed_count(history) >= stress_threshold
                THEN << MsgAlert >> ELSE <<>>,
    ret     |-> PyNone ]

tasks ==
  [m \in {Happy, Sad, Fear, Angry, Surprise} |->
     CASE m = Happy -> << "Collaborate on a new project",
                          "Share positivity with the team" >>
       [] m = Sad   -> << "Take a break", "Listen to music", "Talk to a friend" >>
       [] m = Fear  -> << "Practice deep breathing", "Engage in light work",
                          "Seek support" >>
       [] m = Angry -> << "Cool down with a short walk", "Work on solo tasks" >>
       [] m = Surprise -> << "Reflect on new insights", "Plan next steps" >>]

\* tasks.get(mood.capitalize(), ["No suggestion available"])
recommend_candidates(mood) ==
  LET m == capitalize(mood)
  IN  IF m \in DOMAIN tasks THEN tasks[m] ELSE << Fallback >>

\* recommend_task(mood), with random.choice picking the rnd-th candidate
recommend_task(mood, rnd) == recommend_candidates(mood)[rnd]

\* entry["employee_id"] and entry["anonymized_mood"] both succeed
Projectable(entry) ==
  IsDict(entry) /\ HasKey(entry, "employee_id") /\ HasKey(entry, "anonymized_mood")

AllProjectable(history) ==
  \A i \in 1..Len(history.items) : Projectable(history.items[i])

\* a variant that stores the records whole, mood included
filtered_history_keeping_mood(history) == PyList(history.items)

filtered_history(history) ==
  PyList([i \in 1..Len(history.items) |->
            PyDict(<< Member("employee_id", Get(history.items[i], "employee_id")),
                      Member("anonymized_mood",
                             Get(history.items[i], "anonymized_mood")) >>)])

AbsentFile    == [exists |-> FALSE, content |-> <<>>]
FileOf(toks)  == [exists |-> TRUE,  content |-> toks]
NoFault       == [fault |-> "none", cut |-> 0]

\* a variant whose handler takes OSError only: the KeyError / TypeError of
\* the projection leaves the function
save_mood_history_oserror_only(history, f, io) ==
  IF ~AllProjectable(history)
  THEN [file |-> f, printed |-> <<>>, raised |-> "TypeError"]
  ELSE IF io.fault = "open"
  THEN [file |-> f, printed |-> << MsgSaveError >>, raised |-> ""]
  ELSE IF io.fault = "write"
  THEN [file |-> FileOf(SubSeq(Dump(filtered_history(history)), 1, io.cut)),
        printed |-> << MsgSaveError >>, raised |-> ""]
  ELSE [file |-> FileOf(Dump(filtered_history(history))),
        printed |-> << MsgSaved >>, raised |-> ""]

\* a variant that opens the file for appending instead of overwriting it
save_mood_history_appending(history, f, io) ==
  IF ~AllProjectable(history)
  THEN [file |-> f, printed |-> << MsgSaveError >>, raised |-> ""]
  ELSE IF io.fault = "open"
  THEN [file |-> f, printed |-> << MsgSaveError >>, raised |-> ""]
  ELSE IF io.fault = "write"
  THEN [file |-> FileOf(f.content
                        \o SubSeq(Dump(filtered_history(history)), 1, io.cut)),
        printed |-> << MsgSaveError >>, raised |-> ""]
  ELSE [file |-> FileOf(f.content \o Dump(filtered_history(history))),
        printed |-> << MsgSaved >>, raised |-> ""]

\* save_mood_history(mood_history) on backing file f, for a list; io is what
\* the environment does to this call: no fault, open() failing, or the write
\* failing after io.cut tokens have reached the file that open(.., "w")
\* truncated.  raised is the exception that leaves the function: none, as
\* "except Exception" takes the KeyError / TypeError of the projection and
\* the OSError of open and write alike
save_mood_history(history, f, io) ==
  IF ~AllProjectable(history)
  THEN [file |-> f, printed |-> << MsgSaveError >>, raised |-> ""]
  ELSE IF io.fault = "open"
  THEN [file |-> f, printed |-> << MsgSaveError >>, raised |-> ""]
  ELSE IF io.fault = "write"
  THEN [file |-> FileOf(SubSeq(Dump(filtered_history(history)), 1, io.cut)),
        printed |-> << MsgSaveError >>, raised |-> ""]
  ELSE [file |-> FileOf(Dump(filtered_history(history))),
        printed |-> << MsgSaved >>, raised |-> ""]

\* the text encodings open(filename, "r") may default to
Encodings == {"utf-8", "latin-1"}

\* load_mood_history() on backing file f, read with encoding enc
load_mood_history(f, enc) ==
  IF ~f.exists \/ f.content = <<>>
  THEN [ret |-> PyList(<<>>), printed |-> <<>>, raised |-> ""]
  ELSE IF enc = "utf-8" /\ \E i \in 1..Len(f.content) : f.content[i] = ByteTok
  THEN [ret |-> PyNone, printed |-> <<>>, raised |-> "UnicodeDecodeError"]
  ELSE LET parsed == json_loads(f.content) IN
       IF parsed.ok
       THEN [ret |-> parsed.val, printed |-> <<>>, raised |-> ""]
       ELSE [ret |-> PyList(<<>>), printed |-> << MsgCorrupt >>, raised |-> ""]

\* a variant that records which moods occur, not how often
mood_counts_distinct(history) ==
  LET entries == IF IsList(history) THEN history.items ELSE <<>>
      carrying == {i \in 1..Len(entries) : HasMood(entries[i])}
  IN  [m \in {Get(entries[i], "mood") : i \in carrying} |-> 1]

\* Counter(entry["mood"] for entry in history if isinstance(entry, dict) and
\* "mood" in entry); iterating a dict or a str yields no dict
mood_counts(history) ==
  LET entries == IF IsList(history) THEN history.items ELSE <<>>
      carrying == {i \in 1..Len(entries) : HasMood(entries[i])}
      moods == {Get(entries[i], "mood") : i \in carrying}
  IN  [m \in moods |->
         Cardinality({i \in carrying : Get(entries[i], "mood") = m})]

NoChart == [shown |-> FALSE, counts |-> <<>>]

\* plot_team_mood(mood_history): what it prints, the chart it shows
plot_team_mood(history) ==
  IF ~Truthy(history)
  THEN [printed |-> << MsgNoHistory >>, chart |-> NoChart, raised |-> ""]
  ELSE IF history.type = "int"
  THEN [printed |-> <<>>, chart |-> NoChart, raised |-> "TypeError"]
  ELSE IF DOMAIN mood_counts(history) = {}
  THEN [printed |-> << MsgNoValid >>, chart |-> NoChart, raised |-> ""]
  ELSE [printed |-> <<>>,
        chart |-> [shown |-> TRUE, counts |-> mood_counts(history)],
        raised |-> ""]

(* ------------------------------- state -------------------------------- *)
VARIABLES
  pc,            \* where main() stands, "done" / "crashed" once it has ended
  session,       \* which run of the program this is
  faults,        \* I/O faults injected so far
  file,          \* mood_history.json: [exists, content]
  mood_history,  \* main()'s mood_history
  employee_id,   \* main()'s employee_id
  detected_mood, \* main()'s detected_mood
  out,           \* what the function called in the last step printed
  main_out,      \* what main() itself printed in the last step
  monitor_ret,   \* what the last call of monitor_stress returned
  chart,         \* the chart plot_team_mood last showed
  raised,        \* the exception that ended this run, "" if none
  loaded,        \* history: what load_mood_history returned in this run
  events,        \* history: the steps of the current loop iteration
  reports,       \* history: calls of plot_team_mood in this run
  damaged        \* history: a failed write has replaced a stored history

vars == << pc, session, faults, file, mood_history, employee_id, detected_mood,
           out, main_out, monitor_ret, chart, raised, loaded, events, reports,
           damaged >>

(* ------------------------------ inputs -------------------------------- *)
E0 == << "E", "0" >>
\* lines typed at the "Enter Employee ID" prompt
InputLines == { << " ", "E", "1", " " >> }
\* what DeepFace.analyze may return: no face, or one face's dominant emotion
DeepFaceResults == { <<>>, << << "s","a","d" >> >> }

StoredRecord(employee, digest) ==
  PyDict(<< Member("employee_id", PyStr(employee)),
            Member("anonymized_mood", PyStr(digest)) >>)

\* the backing file the first run may find: absent, zero-length, the file of
\* an earlier run, a JSON value that is no array, an array whose element is
\* no record, a file cut short, a file that is no UTF-8 text
InitialFiles ==
  { AbsentFile,
    FileOf(<<>>),
    FileOf(Dump(PyList(<< StoredRecord(E0, anonymize_data(Sad)) >>))),
    FileOf(Dump(PyDict(<<>>))),
    FileOf(Dump(PyInt(<< "7" >>))),
    FileOf(Dump(PyList(<< PyInt(<< "7" >>) >>))),
    FileOf(<< Tok("["), Tok("{"), KeyTok("employee_id") >>),
    FileOf(<< ByteTok >>) }

\* what the environment may do to a save of history: nothing, or, when the
\* call gets as far as open(), fail the open or fail the write part-way
Faults(history) ==
  IF ~AllProjectable(history) THEN { NoFault }
  ELSE LET n == Len(Dump(filtered_history(history))) IN
       { NoFault, [fault |-> "open", cut |-> 0] }
       \cup { [fault |-> "write", cut |-> k] :
                k \in {j \in 0..(n - 1) : j <= MaxCut \/ j = n - 1} }

\* f holds a stored history: a JSON array of at least one element
HoldsHistory(f) ==
  /\ f.exists
  /\ json_loads(f.content).ok
  /\ json_loads(f.content).val.type = "list"
  /\ json_loads(f.content).val.items # <<>>

(* ------------------------------ main() -------------------------------- *)
Init ==
  /\ pc = "load"
  /\ session = 1
  /\ faults = 0
  /\ file \in InitialFiles
  /\ mood_history = PyNone
  /\ employee_id = <<>>
  /\ detected_mood = <<>>
  /\ out = <<>>
  /\ main_out = <<>>
  /\ monitor_ret = PyNone
  /\ chart = NoChart
  /\ raised = ""
  /\ loaded = PyNone
  /\ events = <<>>
  /\ reports = 0
  /\ damaged = FALSE

\* line 169: mood_history = load_mood_history()
Load ==
  /\ pc = "load"
  /\ \E enc \in Encodings :
       LET r == load_mood_history(file, enc) IN
       /\ out' = r.printed
       /\ raised' = r.raised
       /\ IF r.raised = ""
          THEN /\ mood_history' = r.ret
               /\ loaded' = r.ret
               /\ pc' = "input"
          ELSE /\ pc' = "crashed"
               /\ UNCHANGED << mood_history, loaded >>
  /\ main_out' = <<>>
  /\ UNCHANGED << session, faults, file, employee_id, detected_mood,
                  monitor_ret, chart, events, reports, damaged >>

\* line 171: employee_id = input("Enter Employee ID: ").strip()
Input ==
  /\ pc = "input"
  /\ \E line \in InputLines : employee_id' = strip(line)
  /\ pc' = "read"
  /\ out' = <<>>
  /\ main_out' = <<>>
  /\ UNCHANGED << session, faults, file, mood_history, detected_mood,
                  monitor_ret, chart, raised, loaded, events, reports, damaged >>

\* lines 174-187: a frame is read, its mood detected, the record built and
\* appended; only a list has append
Capture ==
  /\ pc = "read"
  /\ IsList(mood_history) => Len(mood_history.items) < MaxLog
  /\ \E result \in DeepFaceResults :
       /\ detected_mood' = detect_facial_emotion(result)
       /\ IF IsList(mood_history)
          THEN /\ mood_history' =
                    PyList(Append(mood_history.items,
                                  mood_entry(employee_id, detected_mood')))
               /\ events' = << "append" >>
               /\ pc' = "save"
               /\ UNCHANGED raised
          ELSE /\ raised' = "AttributeError"
               /\ pc' = "crashed"
               /\ events' = <<>>
               /\ UNCHANGED mood_history
  /\ out' = <<>>
  /\ main_out' = <<>>
  /\ UNCHANGED << session, faults, file, employee_id, monitor_ret, chart,
                  loaded, reports, damaged >>

\* a variant that appends a record for the read that failed
EndOfStream_appending ==
  /\ pc = "read"
  /\ IsList(mood_history)
  /\ mood_history' =
       PyList(Append(mood_history.items, mood_entry(employee_id, detected_mood)))
  /\ pc' = "report"
  /\ events' = <<>>
  /\ out' = <<>>
  /\ main_out' = <<>>
  /\ UNCHANGED << session, faults, file, employee_id, detected_mood,
                  monitor_ret, chart, raised, loaded, reports, damaged >>

\* lines 174-176: the capture source reports end-of-stream
EndOfStream ==
  /\ pc = "read"
  /\ pc' = "report"
  /\ events' = <<>>
  /\ out' = <<>>
  /\ main_out' = <<>>
  /\ UNCHANGED << session, faults, file, mood_history, employee_id,
                  detected_mood, monitor_ret, chart, raised, loaded, reports,
                  damaged >>

\* line 188: save_mood_history(mood_history)
Save ==
  /\ pc = "save"
  /\ \E io \in Faults(mood_history) :
       LET r == save_mood_history(mood_history, file, io) IN
       /\ io.fault # "none" => faults < MaxFaults
       /\ faults' = IF io.fault # "none" THEN faults + 1 ELSE faults
       /\ file' = r.file
       /\ out' = r.printed
       /\ raised' = r.raised
       /\ pc' = IF r.raised = "" THEN "monitor" ELSE "crashed"
       /\ damaged' = IF r.printed = << MsgSaved >> THEN FALSE
                     ELSE IF r.file # file /\ HoldsHistory(file) THEN TRUE
                     ELSE damaged
  /\ events' = Append(events, "save")
  /\ main_out' = <<>>
  /\ UNCHANGED << session, mood_history, employee_id, detected_mood,
                  monitor_ret, chart, loaded, reports >>

\* line 189: monitor_stress(mood_history)
Monitor ==
  /\ pc = "monitor"
  /\ LET r == monitor_stress(mood_history) IN
       /\ mood_history' = r.mood_history
       /\ out' = r.printed
       /\ monitor_ret' = r.ret
  /\ events' = Append(events, "monitor")
  /\ pc' = "recommend"
  /\ main_out' = <<>>
  /\ UNCHANGED << session, faults, file, employee_id, detected_mood, chart,
                  raised, loaded, reports, damaged >>

\* lines 191-192: the mood and recommend_task(detected_mood) are printed
Recommend ==
  /\ pc = "recommend"
  /\ \E rnd \in 1..Len(recommend_candidates(detected_mood)) :
       main_out' = << recommend_task(detected_mood, rnd) >>
  /\ events' = Append(events, "recommend")
  /\ pc' = "waitkey"
  /\ out' = <<>>
  /\ UNCHANGED << session, faults, file, mood_history, employee_id,
                  detected_mood, monitor_ret, chart, raised, loaded, reports,
                  damaged >>

\* lines 194-198: the frame is shown; 'q' leaves the loop
WaitKey ==
  /\ pc = "waitkey"
  /\ \E quit \in BOOLEAN : pc' = IF quit THEN "report" ELSE "read"
  /\ out' = <<>>
  /\ main_out' = <<>>
  /\ UNCHANGED << session, faults, file, mood_history, employee_id,
                  detected_mood, monitor_ret, chart, raised, loaded, events,
                  reports, damaged >>

\* line 203: plot_team_mood(mood_history)
Report ==
  /\ pc = "report"
  /\ LET r == plot_team_mood(mood_history) IN
       /\ out' = r.printed
       /\ chart' = r.chart
       /\ raised' = r.raised
       /\ pc' = IF r.raised = "" THEN "done" ELSE "crashed"
  /\ reports' = reports + 1
  /\ main_out' = <<>>
  /\ UNCHANGED << session, faults, file, mood_history, employee_id,
                  detected_mood, monitor_ret, loaded, events, damaged >>

\* the program is run again: a new process, the same backing file
Restart ==
  /\ pc \in {"done", "crashed"}
  /\ session < MaxSessions
  /\ session' = session + 1
  /\ pc' = "load"
  /\ mood_history' = PyNone
  /\ employee_id' = <<>>
  /\ detected_mood' = <<>>
  /\ out' = <<>>
  /\ main_out' = <<>>
  /\ monitor_ret' = PyNone
  /\ chart' = NoChart
  /\ raised' = ""
  /\ loaded' = PyNone
  /\ events' = <<>>
  /\ reports' = 0
  /\ UNCHANGED << faults, file, damaged >>

Next ==
  \/ Load
  \/ Input
  \/ Capture
  \/ EndOfStream
  \/ Save
  \/ Monitor
  \/ Recommend
  \/ WaitKey
  \/ Report
  \/ Restart

Spec == Init /\ [][Next]_vars

(* ---------------- the store alone: save, then load ------------------- *)
E1 == << "E", "1" >>
\* the records a log given to save may hold
StoreRecords == { mood_entry(e, m) : e \in {E0, E1}, m \in {Sad, Happy, Neutral} }
\* the logs given to save: 0 to MaxStoreLog well-formed records
StoreLogs ==
  UNION { { PyList(items) : items \in [1..n -> StoreRecords] } : n \in 0..MaxStoreLog }

StoreInit ==
  /\ pc = "store_save"
  /\ mood_history \in StoreLogs
  /\ file \in { AbsentFile,
                FileOf(Dump(PyList(<< StoredRecord(E0, anonymize_data(Sad)) >>))) }
  /\ session = 1
  /\ faults = 0
  /\ employee_id = <<>>
  /\ detected_mood = <<>>
  /\ out = <<>>
  /\ main_out = <<>>
  /\ monitor_ret = PyNone
  /\ chart = NoChart
  /\ raised = ""
  /\ loaded = PyNone
  /\ events = <<>>
  /\ reports = 0
  /\ damaged = FALSE

\* save_mood_history(log)
StoreSave ==
  /\ pc = "store_save"
  /\ \E io \in Faults(mood_history) :
       LET r == save_mood_history(mood_history, file, io) IN
       /\ faults' = IF io.fault # "none" THEN faults + 1 ELSE faults
       /\ file' = r.file
       /\ out' = r.printed
       /\ raised' = r.raised
  /\ events' = << "save" >>
  /\ pc' = "store_load"
  /\ UNCHANGED << session, mood_history, employee_id, detected_mood, main_out,
                  monitor_ret, chart, loaded, reports, damaged >>

\* load_mood_history()
StoreLoad ==
  /\ pc = "store_load"
  /\ \E enc \in Encodings :
       LET r == load_mood_history(file, enc) IN
       /\ loaded' = r.ret
       /\ out' = r.printed
       /\ raised' = r.raised
  /\ events' = << "save", "load" >>
  /\ pc' = "store_done"
  /\ UNCHANGED << session, faults, file, mood_history, employee_id,
                  detected_mood, main_out, monitor_ret, chart, reports,
                  damaged >>

StoreNext ==
  \/ StoreSave
  \/ StoreLoad

SpecStore == StoreInit /\ [][StoreNext]_vars

(* ------------------ the recommender alone: one call ------------------- *)
\* every spelling of word w in upper and lower case letters
CaseVariants(w) ==
  { [i \in 1..Len(w) |-> IF i \in ups THEN to_upper(w[i]) ELSE to_lower(w[i])] :
      ups \in SUBSET (1..Len(w)) }
\* the moods given to recommend_task: the labels in every letter case, and
\* moods that are no label
RecommendInputs ==
  UNION { CaseVariants(label) : label \in Vocabulary }
  \cup CaseVariants(<< "d","i","s","g","u","s","t" >>)
  \cup { <<>>, << "u","n","k","n","o","w","n","-","m","o","o","d" >> }

RecommendInit ==
  /\ pc = "recommend_call"
  /\ detected_mood \in RecommendInputs
  /\ session = 1
  /\ faults = 0
  /\ file = AbsentFile
  /\ mood_history = PyNone
  /\ employee_id = <<>>
  /\ out = <<>>
  /\ main_out = <<>>
  /\ monitor_ret = PyNone
  /\ chart = NoChart
  /\ raised = ""
  /\ loaded = PyNone
  /\ events = <<>>
  /\ reports = 0
  /\ damaged = FALSE

\* recommend_task(mood), its result kept in main_out
RecommendCall ==
  /\ pc = "recommend_call"
  /\ \E rnd \in 1..Len(recommend_candidates(detected_mood)) :
       main_out' = << recommend_task(detected_mood, rnd) >>
  /\ pc' = "recommend_done"
  /\ UNCHANGED << session, faults, file, mood_history, employee_id,
                  detected_mood, out, monitor_ret, chart, raised, loaded,
                  events, reports, damaged >>

RecommendNext == RecommendCall

SpecRecommend == RecommendInit /\ [][RecommendNext]_vars

(* ============================== claims ================================ *)
Range(seq) == {seq[i] : i \in 1..Len(seq)}
\* entry is a dict that carries the mood m
CarriesMood(entry, m) ==
  entry.type = "dict"
  /\ \E j \in 1..Len(entry.items) :
       /\ entry.items[j].key = "mood"
       /\ entry.items[j].type = "str"
       /\ entry.items[j].str = m
\* positions of the log's last stress_window records
WindowOf(history) ==
  {i \in 1..Len(history.items) : i > Len(history.items) - stress_window}
\* the "Sad" records among them
SadInWindow(history) == {i \in WindowOf(history) : CarriesMood(history.items[i], Sad)}
\* positions of the records this run appended
OwnRecords == {i \in 1..Len(mood_history.items) : i > Len(loaded.items)}

\* C1: whatever the log (empty, shorter than 5, longer), the stress monitor
\* raises the alert exactly when at least 3 of the log's last 5 records are
\* dicts whose mood is "Sad"; this holds of the monitor applied to the log of
\* every reachable state, and of what the call in the loop printed.
C1_AlertIffThreeSadInLastFive ==
  IsList(mood_history) =>
    /\ (MsgAlert \in Range(monitor_stress(mood_history).printed))
         <=> (Cardinality(SadInWindow(mood_history)) >= 3)
    /\ pc = "recommend" =>
         ((MsgAlert \in Range(out))
            <=> (Cardinality(SadInWindow(mood_history)) >= 3))

\* the monitor has alerted on a log longer than the window
C1_Witness ==
  /\ pc = "recommend"
  /\ MsgAlert \in Range(out)
  /\ Len(mood_history.items) > stress_window
  /\ Cardinality(SadInWindow(mood_history)) = 3

\* C10: an alert is printed only when at least 3 of the last 5 records were
\* appended by the current run with mood "Sad", and the monitor applied to
\* the log as load_mood_history returned it never alerts: records that came
\* from the backing file count for nothing.
C10_StressEvidenceIsPerRun ==
  /\ (pc = "recommend" /\ MsgAlert \in Range(out)) =>
       Cardinality(SadInWindow(mood_history) \cap OwnRecords) >= 3
  /\ (pc = "input" /\ IsList(mood_history)) =>
       monitor_stress(mood_history).printed = <<>>

\* a second run has loaded three records an earlier run saved as "Sad"
C10_Witness ==
  /\ session > 1
  /\ pc = "input"
  /\ IsList(mood_history)
  /\ Len(mood_history.items) >= 3
  /\ \A i \in 1..Len(mood_history.items) :
       /\ IsDict(mood_history.items[i])
       /\ HasKey(mood_history.items[i], "anonymized_mood")
       /\ Get(mood_history.items[i], "anonymized_mood") = PyStr(anonymize_data(Sad))

RECURSIVE CountMood(_, _)
\* occurrences of mood m among the dicts of entries that carry a mood
CountMood(entries, m) ==
  IF entries = <<>> THEN 0
  ELSE (IF CarriesMood(Head(entries), m) THEN 1 ELSE 0)
       + CountMood(Tail(entries), m)
RECURSIVE SumCounts(_, _)
SumCounts(counts, keys) ==
  IF keys = {} THEN 0
  ELSE LET k == CHOOSE k \in keys : TRUE
       IN  counts[k] + SumCounts(counts, keys \ {k})
\* records of the log that are dicts with a mood field
WellFormed(history) ==
  {i \in 1..Len(history.items) :
     history.items[i].type = "dict"
     /\ \E j \in 1..Len(history.items[i].items) :
          history.items[i].items[j].key = "mood"}

\* C8: once the reporter has run over a log, the chart it showed counts each
\* distinct mood over the records that carry one (a key for every mood
\* present, the counts summing to the number of such records); with no such
\* record (empty log, or only records without a mood) it shows nothing,
\* prints a diagnostic and raises nothing.
C8_ReporterCounts ==
  (pc \in {"done", "crashed"} /\ reports > 0 /\ IsList(mood_history)) =>
    IF WellFormed(mood_history) = {}
    THEN /\ ~chart.shown
         /\ out \in {<< MsgNoHistory >>, << MsgNoValid >>}
         /\ raised = ""
    ELSE /\ chart.shown
         /\ raised = ""
         /\ \A i \in WellFormed(mood_history) :
              Get(mood_history.items[i], "mood") \in DOMAIN chart.counts
         /\ \A m \in DOMAIN chart.counts :
              /\ chart.counts[m] > 0
              /\ chart.counts[m] = CountMood(mood_history.items, m.str)
         /\ SumCounts(chart.counts, DOMAIN chart.counts)
              = Cardinality(WellFormed(mood_history))

\* the reporter has charted three of one mood and one of another, over a log
\* that also holds a record without a mood
C8_Witness ==
  /\ pc = "done"
  /\ chart.shown
  /\ Cardinality(WellFormed(mood_history)) < Len(mood_history.items)
  /\ PyStr(Sad) \in DOMAIN chart.counts
  /\ PyStr(Neutral) \in DOMAIN chart.counts
  /\ chart.counts[PyStr(Neutral)] = 3
  /\ chart.counts[PyStr(Sad)] = 1

\* the file holds exactly what a complete save of history writes
HoldsSaveOf(f, history) ==
  /\ AllProjectable(history)
  /\ f = FileOf(Dump(filtered_history(history)))

\* C4: a failure inside save, at whichever step (the projection, open, the
\* write), is caught and reported and ends nothing: the iteration appends
\* exactly one record to the log and keeps the earlier ones, the save step
\* leaves the log alone, raises nothing, prints the error unless the file now
\* holds the complete save, and the iteration goes on to the stress check
\* and then to the recommendation.
C4_SaveFailureContained ==
  [][ /\ (pc = "read" /\ pc' = "save") =>
            /\ Len(mood_history'.items) = Len(mood_history.items) + 1
            /\ SubSeq(mood_history'.items, 1, Len(mood_history.items))
                 = mood_history.items
      /\ pc = "save" =>
            /\ mood_history' = mood_history
            /\ raised' = ""
            /\ pc' = "monitor"
            /\ IF HoldsSaveOf(file', mood_history)
               THEN out' \in {<< MsgSaved >>, << MsgSaveError >>}
               ELSE out' = << MsgSaveError >>
      /\ pc = "monitor" => (pc' = "recommend" /\ mood_history' = mood_history)
      /\ pc = "recommend" => (pc' = "waitkey" /\ mood_history' = mood_history)
    ]_vars

\* the one iteration of the first run had its write fail part-way, and still
\* reached the end of the iteration with its record in the log
C4_Witness ==
  /\ session = 1
  /\ pc = "waitkey"
  /\ damaged
  /\ ~HoldsSaveOf(file, mood_history)
  /\ Len(mood_history.items) = Len(loaded.items) + 1
  /\ events = << "append", "save", "monitor", "recommend" >>

C9_SessionControlFlow ==
  /\ [] /\ pc = "save" => events = << "append" >>
        /\ pc = "monitor" => events = << "append", "save" >>
        /\ pc = "recommend" => events = << "append", "save", "monitor" >>
        /\ pc = "waitkey" =>
             events = << "append", "save", "monitor", "recommend" >>
        /\ (pc = "monitor" /\ out = << MsgSaved >>) =>
             HoldsSaveOf(file, mood_history)
        /\ pc \notin {"done", "crashed"} => reports = 0
        /\ pc = "done" =>
             /\ reports = 1
             /\ chart = plot_team_mood(mood_history).chart
        /\ (pc \in {"save", "monitor", "recommend", "waitkey", "report", "done"}
            /\ IsList(mood_history)) =>
             /\ SubSeq(mood_history.items, 1, Len(loaded.items)) = loaded.items
             /\ \A i \in OwnRecords :
                  /\ HasMood(mood_history.items[i])
                  /\ Get(mood_history.items[i], "employee_id")
                       = PyStr(employee_id)
  /\ [][ /\ pc' = "report" =>
               (pc \in {"read", "waitkey"}
                /\ mood_history' = mood_history /\ file' = file)
         /\ pc = "report" =>
               (pc' \in {"done", "crashed"} /\ reports' = reports + 1
                /\ mood_history' = mood_history)
         /\ pc = "done" => pc' = "load"
       ]_vars

\* a second run has ended after reporting once over loaded records followed
\* by records of its own
C9_Witness ==
  /\ session = 2
  /\ pc = "done"
  /\ reports = 1
  /\ chart.shown
  /\ Len(loaded.items) >= 1
  /\ Len(mood_history.items) > Len(loaded.items)

\* the file cannot be read as a JSON array
Malformed(f) ==
  /\ f.exists
  /\ f.content # <<>>
  /\ \/ ~json_loads(f.content).ok
     \/ json_loads(f.content).val.type # "list"

\* C3: load never raises and always returns a log: the empty log when the
\* file is absent or zero-length, and the empty log with a diagnostic when
\* its content is not a JSON array of records.
C3_LoadNeverRaisesReturnsLog ==
  /\ raised # "UnicodeDecodeError"
  /\ pc = "input" =>
       /\ IsList(mood_history)
       /\ (~file.exists \/ file.content = <<>>) => mood_history = PyList(<<>>)
       /\ Malformed(file) =>
            (mood_history = PyList(<<>>) /\ out = << MsgCorrupt >>)

\* C5: when a save has failed after it began to overwrite a stored history,
\* the next load reports the damage instead of silently returning a log.
C5_DamageIsReported ==
  (pc = "input" /\ damaged) => MsgCorrupt \in Range(out)

lower(s) == [i \in 1..Len(s) |-> to_lower(s[i])]

\* C6: for a mood that is a label of the vocabulary, in whatever letter case,
\* the recommendation is one of that label's candidates; for any other mood
\* it is the fallback.
C6_VocabularyGetsCandidates ==
  pc \in {"waitkey", "recommend_done"} =>
    IF \E label \in Vocabulary : lower(label) = lower(detected_mood)
    THEN LET label == CHOOSE l \in Vocabulary : lower(l) = lower(detected_mood)
         IN  /\ label \in DOMAIN tasks
             /\ main_out[1] \in Range(tasks[label])
             /\ main_out[1] # Fallback
    ELSE main_out = << Fallback >>

\* C2: when save(log) has run without an I/O fault on a log of 0, 1 or more
\* well-formed records, the load that follows returns a log of the same
\* length and order whose records hold exactly employee_id and
\* anonymized_mood, with the values of the original records; and no mood
\* field is in the file save left, nor in a loaded record.
C2_RoundTripIsProjection ==
  /\ pc \in {"store_load", "store_done"} =>
       \A i \in 1..Len(file.content) :
         ~(file.content[i].tok = "key" /\ file.content[i].name = "mood")
  /\ (pc = "store_done" /\ faults = 0) =>
       /\ raised = ""
       /\ loaded.type = "list"
       /\ Len(loaded.items) = Len(mood_history.items)
       /\ \A i \in 1..Len(loaded.items) :
            /\ loaded.items[i].type = "dict"
            /\ {loaded.items[i].items[j].key : j \in 1..Len(loaded.items[i].items)}
                 = {"employee_id", "anonymized_mood"}
            /\ Len(loaded.items[i].items) = 2
            /\ Get(loaded.items[i], "employee_id")
                 = Get(mood_history.items[i], "employee_id")
            /\ Get(loaded.items[i], "anonymized_mood")
                 = Get(mood_history.items[i], "anonymized_mood")

\* two records of different employees and moods were saved over an older
\* file and loaded back
C2_Witness ==
  /\ pc = "store_done"
  /\ faults = 0
  /\ Len(mood_history.items) = 2
  /\ Len(loaded.items) = 2
  /\ loaded.items[1] # loaded.items[2]
  /\ Get(mood_history.items[1], "employee_id")
       # Get(mood_history.items[2], "employee_id")

====
